---- MODULE Spec2Model ----
(***************************************************************************)
(* Bound computation of taeruh/free_fermions, src/pysrc/bounds.py: the     *)
(* claw and simplicial-clique moment formulas, the density-regime          *)
(* composition in get_lower_bound / get_upper_bound, and the threshold     *)
(* scan gnp_almost_surely_scf_get_n.                                       *)
(*                                                                         *)
(* Numbers.  The code computes in IEEE doubles (numpy scalars).  Here a    *)
(* number is either finite, kept exactly as  s * n / (d * Base^e)  with    *)
(* unbounded magnitudes n, d (digit sequences), or one of the three        *)
(* non-finite IEEE results +inf, -inf, NaN, produced and propagated as     *)
(* numpy produces them (x/0, inf*0, inf-inf, comparisons with NaN false).  *)
(* Rounding of finite results and the sign of zero are not modelled.       *)
(* np.log and np.exp are modelled in fixed point with Scale steps per      *)
(* unit.                                                                   *)
(***************************************************************************)
EXTENDS Integers, Sequences, FiniteSets, Bags, TLC

\* ------------------------------------------------------------------------
\* Unbounded naturals: little-endian digit sequences, no leading zero digit,
\* zero is the empty sequence.
\* ------------------------------------------------------------------------
Base == 10 ^ 3

RECURSIVE MagFromInt(_)
MagFromInt(i) == IF i = 0 THEN << >> ELSE <<i % Base>> \o MagFromInt(i \div Base)

\* digit i of a, 0 outside of it
Dg(a, i) == IF 1 <= i /\ i <= Len(a) THEN a[i] ELSE 0

Max2(a, b) == IF a >= b THEN a ELSE b
Min2(a, b) == IF a <= b THEN a ELSE b

\* the function f on 1..m as a sequence of its values
Digits(f) == f \o << >>

\* the sum of the naturals f[i] over the domain of f: the size of the bag
\* with f[i] + 1 copies of each i, less one copy of each
SumOf(f) == BagCardinality([i \in DOMAIN f |-> f[i] + 1]) - Cardinality(DOMAIN f)

\* without the leading zero digits
MagStrip(a) ==
  SubSeq(a, 1, CHOOSE i \in 0..Len(a) :
                 /\ i = 0 \/ a[i] # 0
                 /\ \A j \in (i + 1)..Len(a) : a[j] = 0)

\* The carry into position i of the digit sums raw (each below 2 * Base)
\* with the carry c0 into position 1: that of the nearest position below i
\* whose sum is not Base - 1, which makes a carry as it reaches Base.
CarryIn(raw, c0, i) ==
  IF \A k \in 1..(i - 1) : raw[k] = Base - 1 THEN c0
  ELSE IF raw[CHOOSE j \in 1..(i - 1) :
                /\ raw[j] # Base - 1
                /\ \A k \in (j + 1)..(i - 1) : raw[k] = Base - 1] >= Base
  THEN 1
  ELSE 0

\* the magnitude of the digit sums raw, the carry out of the last one dropped
Resolve(raw, c0) ==
  MagStrip(Digits([i \in 1..Len(raw) |-> (raw[i] + CarryIn(raw, c0, i)) % Base]))

\* a + b for s = 1; a - b for s = -1 and a >= b, as a plus the complement
\* of b plus one
MagSum(a, b, s) ==
  Resolve(Digits([i \in 1..(Max2(Len(a), Len(b)) + (IF s > 0 THEN 1 ELSE 0)) |->
                    Dg(a, i) + (IF s > 0 THEN Dg(b, i) ELSE Base - 1 - Dg(b, i))]),
          IF s > 0 THEN 0 ELSE 1)

MagAdd(a, b) == MagSum(a, b, 1)
MagSub(a, b) == MagSum(a, b, -1)

CmpAt(a, b, i) == IF a[i] < b[i] THEN -1 ELSE 1

\* -1, 0, 1 as a < b, a = b, a > b: by the highest digit that differs
MagCmp(a, b) ==
  IF Len(a) # Len(b) THEN (IF Len(a) < Len(b) THEN -1 ELSE 1)
  ELSE IF a = b THEN 0
  ELSE CmpAt(a, b, CHOOSE i \in 1..Len(a) :
                     /\ a[i] # b[i]
                     /\ \A j \in (i + 1)..Len(a) : a[j] = b[j])

\* a * Base^k
MagShift(a, k) == IF a = << >> \/ k = 0 THEN a ELSE [i \in 1..k |-> 0] \o a

\* the column sums of the long multiplication of a and b
Columns(a, b) ==
  [k \in 1..(Len(a) + Len(b) - 1) |->
     SumOf([i \in Max2(1, k + 1 - Len(b))..Min2(Len(a), k) |-> a[i] * b[k + 1 - i]])]

\* digit t of the value at position j of c, 0 outside of c
Part(c, j, t) ==
  IF 1 <= j /\ j <= Len(c) THEN (c[j] \div Base ^ t) % Base ELSE 0

\* every value of c (below Base^4) spread over the positions of its digits
Spread(c) ==
  [i \in 1..(Len(c) + 3) |->
     Part(c, i, 0) + Part(c, i - 1, 1) + Part(c, i - 2, 2) + Part(c, i - 3, 3)]

MagMul(a, b) ==
  IF a = << >> \/ b = << >> THEN << >>
  ELSE IF b = <<1>> THEN a
  ELSE IF a = <<1>> THEN b
  ELSE Resolve(Digits(Spread(Digits(Spread(Digits(Columns(a, b)))))), 0)

\* ------------------------------------------------------------------------
\* Numbers
\* ------------------------------------------------------------------------
MagOne == <<1>>

Fin(s, n, d, e) == [k |-> "fin", s |-> s, n |-> n, d |-> d, e |-> e]
PInf == [k |-> "pinf", s |-> 1, n |-> << >>, d |-> MagOne, e |-> 0]
NInf == [k |-> "ninf", s |-> -1, n |-> << >>, d |-> MagOne, e |-> 0]
NaN == [k |-> "nan", s |-> 0, n |-> << >>, d |-> MagOne, e |-> 0]
Zero == Fin(0, << >>, MagOne, 0)

IsFin(x) == x.k = "fin"
IsNaN(x) == x.k = "nan"
IsInf(x) == x.k \in {"pinf", "ninf"}

\* x without its dr low digits, which are zero, and dr powers of Base less
NormDrop(x, dr) == Fin(x.s, SubSeq(x.n, dr + 1, Len(x.n)), x.d, x.e - dr)

\* drop low zero digits of the numerator against the Base^e of the denominator
Norm(x) ==
  IF x.n = << >> THEN Zero
  ELSE IF x.d # MagOne /\ x.n = x.d THEN Fin(x.s, MagOne, MagOne, x.e)
  ELSE IF x.e > 0 /\ Head(x.n) = 0
  THEN NormDrop(x, Min2(x.e, (CHOOSE i \in 1..Len(x.n) :
                                 /\ x.n[i] # 0
                                 /\ \A j \in 1..(i - 1) : x.n[j] = 0) - 1))
  ELSE x

FromInt(i) ==
  IF i = 0 THEN Zero
  ELSE IF i < 0 THEN Fin(-1, MagFromInt(-i), MagOne, 0)
  ELSE Fin(1, MagFromInt(i), MagOne, 0)

One == FromInt(1)

\* signed sum of two magnitudes, c = MagCmp(m1, m2): <<sign, magnitude>>
SAdd(s1, m1, s2, m2, c) ==
  << IF s1 * s2 < 0 THEN (IF c > 0 THEN s1 ELSE IF c < 0 THEN s2 ELSE 0)
     ELSE IF s1 # 0 THEN s1 ELSE s2,
     MagSum(IF c >= 0 THEN m1 ELSE m2, IF c >= 0 THEN m2 ELSE m1,
            IF s1 * s2 < 0 THEN -1 ELSE 1) >>

\* x.n, y.n and x.d brought to a common denominator: as they are when the
\* denominators are the same, else x.n * y.d, y.n * x.d, x.d * y.d
Cross(x, y) ==
  [i \in 1..3 |-> IF x.d = y.d THEN <<x.n, y.n, x.d>>[i]
                  ELSE MagMul(<<x.n, y.n, x.d>>[i], <<y.d, x.d, y.d>>[i])]

FinOf(r, d, e) == Norm(Fin(r[1], r[2], d, e))

FinSigned(s1, m1, s2, m2, d, e) == FinOf(SAdd(s1, m1, s2, m2, MagCmp(m1, m2)), d, e)

\* x + y over the denominator c[3] * Base^e
FinSum(x, y, c, e) ==
  FinSigned(x.s, MagShift(c[1], e - x.e), y.s, MagShift(c[2], e - y.e), c[3], e)

FinAdd(x, y) == FinSum(x, y, Cross(x, y), Max2(x.e, y.e))

Neg(x) ==
  IF x.k = "pinf" THEN NInf
  ELSE IF x.k = "ninf" THEN PInf
  ELSE IF x.k = "nan" THEN NaN
  ELSE Fin(-x.s, x.n, x.d, x.e)

Add(x, y) ==
  IF IsNaN(x) \/ IsNaN(y) THEN NaN
  ELSE IF IsInf(x) /\ IsInf(y) THEN (IF x.k = y.k THEN x ELSE NaN)
  ELSE IF IsInf(x) THEN x
  ELSE IF IsInf(y) THEN y
  ELSE FinAdd(x, y)

Sub(x, y) == Add(x, Neg(y))

SignInf(s) == IF s > 0 THEN PInf ELSE NInf

\* the products of the numerators and of the denominators
Prod(x, y) == [i \in {"n", "d"} |-> MagMul(x[i], y[i])]

FinProd(s, nd, e) == Norm(Fin(s, nd["n"], nd["d"], e))

Mul(x, y) ==
  IF IsNaN(x) \/ IsNaN(y) THEN NaN
  ELSE IF IsInf(x) \/ IsInf(y)
       THEN (IF x.s * y.s = 0 THEN NaN ELSE SignInf(x.s * y.s))
  ELSE IF x.s = 0 \/ y.s = 0 THEN Zero
  ELSE FinProd(x.s * y.s, Prod(x, y), x.e + y.e)

\* 1 / y for a finite y # 0
Recip(y) == Fin(y.s, MagShift(y.d, y.e), y.n, 0)

\* numpy scalar division: x/0 is +-inf or NaN (a RuntimeWarning, no exception)
Div(x, y) ==
  IF IsNaN(x) \/ IsNaN(y) THEN NaN
  ELSE IF IsInf(x) THEN (IF IsInf(y) THEN NaN
                         ELSE SignInf(x.s * (IF y.s < 0 THEN -1 ELSE 1)))
  ELSE IF IsInf(y) THEN Zero
  ELSE IF y.s = 0 THEN (IF x.s = 0 THEN NaN ELSE SignInf(x.s))
  ELSE Mul(x, Recip(y))

\* x ** k for an integer k >= 0 (x ** 0 is 1 for every x, NaN included)
\* h * h * r
PowSquare(h, r) == Mul(h, Mul(h, r))

RECURSIVE Pow(_, _)
Pow(x, k) ==
  IF k = 0 THEN One
  ELSE IF k = 1 THEN x
  ELSE PowSquare(Pow(x, k \div 2), IF k % 2 = 0 THEN One ELSE x)

\* sign of x - y for finite x, y
FinCmp(x, y) == FinAdd(x, Neg(y)).s

Lt(x, y) ==
  IF IsNaN(x) \/ IsNaN(y) THEN FALSE
  ELSE IF x.k = "pinf" \/ y.k = "ninf" THEN FALSE
  ELSE IF x.k = "ninf" \/ y.k = "pinf" THEN TRUE
  ELSE FinCmp(x, y) < 0

Ge(x, y) ==
  IF IsNaN(x) \/ IsNaN(y) THEN FALSE
  ELSE IF x.k = "pinf" \/ y.k = "ninf" THEN TRUE
  ELSE IF x.k = "ninf" \/ y.k = "pinf" THEN FALSE
  ELSE FinCmp(x, y) >= 0

Gt(x, y) == Lt(y, x)
Le(x, y) == Ge(y, x)

\* the same result: the same non-finite value, or equal finite values
Same(x, y) ==
  IF IsFin(x) /\ IsFin(y) THEN FinCmp(x, y) = 0 ELSE x.k = y.k

\* Python's builtin max(a, b) / min(a, b): the first argument unless the second
\* compares greater / smaller
PyMax(a, b) == IF Gt(b, a) THEN b ELSE a
PyMin(a, b) == IF Lt(b, a) THEN b ELSE a

\* ------------------------------------------------------------------------
\* Decimal literals and fixed point
\* ------------------------------------------------------------------------
\* steps per unit of the fixed-point model of np.log and np.exp
Scale == 10 ^ 4

\* the decimal m / Scale, for a natural m
Dec(m) ==
  IF m = 0 THEN Zero
  ELSE Norm(Fin(1, MagFromInt(m * (Base ^ 2 \div Scale)), MagOne, 2))

\* the value of a magnitude of at most three digits
MagToInt(a) == Dg(a, 1) + Base * Dg(a, 2) + Base ^ 2 * Dg(a, 3)

\* floor(x * Scale) of a decimal x = x.n / Base^(x.e), 0 <= x < 1
FxFloor(x) ==
  IF x.e <= 1 THEN (MagToInt(x.n) * Scale) \div Base ^ x.e
  ELSE MagToInt(SubSeq(x.n, x.e - 1, Len(x.n))) \div (Base ^ 2 \div Scale)

\* exp(-x) for x = xfx / Scale >= 0, in fixed point: the Taylor polynomial of
\* degree 6 below one half, exp(-x) = exp(-x/2)^2 above
RECURSIVE ExpNegFx(_)
ExpNegFx(xfx) ==
  IF 2 * xfx > Scale
  THEN LET h == ExpNegFx(xfx \div 2)
           g == IF xfx % 2 = 0 THEN h ELSE ExpNegFx(xfx \div 2 + 1)
       IN  (h * g) \div Scale
  ELSE LET x1 == xfx
           x2 == (x1 * xfx) \div Scale
           x3 == (x2 * xfx) \div Scale
           x4 == (x3 * xfx) \div Scale
           x5 == (x4 * xfx) \div Scale
           x6 == (x5 * xfx) \div Scale
       IN  Scale - x1 + x2 \div 2 - x3 \div 6 + x4 \div 24 - x5 \div 120
           + x6 \div 720

\* np.log(n) * Scale, rounded, for n = 1 .. 16
LnTable ==
  <<0, 6931, 10986, 13863, 16094, 17918, 19459, 20794,
    21972, 23026, 23979, 24849, 25649, 26391, 27081, 27726>>

LnFx(n) == LnTable[n]

\* np.log(n) as a number
Log(n) == Dec(LnFx(n))

\* Python's round(a / b) for integers a >= 0, b > 0: to the nearest integer,
\* a tie to the even one
PyRound(a, b) ==
  LET q == a \div b
      r == a % b
  IN  IF 2 * r < b THEN q
      ELSE IF 2 * r > b THEN q + 1
      ELSE IF q % 2 = 0 THEN q ELSE q + 1

\* ------------------------------------------------------------------------
\* Combinatorics primitives and moment formulas
\* ------------------------------------------------------------------------
RECURSIVE BinomProd(_, _)
BinomProd(n, k) == IF k = 0 THEN 1 ELSE (BinomProd(n, k - 1) * (n - k + 1)) \div k

\* Variant of binom with the test "k < n" for "k <= n".
BinomStrict(n, k) == IF k < n /\ n >= 0 /\ k >= 0 THEN BinomProd(n, k) ELSE 0

\* scipy.special.comb(n, k) for integers: 0 unless 0 <= k <= n
binom(n, k) == IF k <= n /\ n >= 0 /\ k >= 0 THEN BinomProd(n, k) ELSE 0

\* Variant of _exp_claws with binom(n, 3) for binom(n - 1, 3).
ExpClawsBinomN(n, p) ==
  Mul(Mul(FromInt(n * binom(n, 3)), Pow(p, 3)), Pow(Sub(One, p), 3))

\* Variant of _exp_claws with 1 - p ** 3 for (1 - p) ** 3.
ExpClawsPrecedence(n, p) ==
  Mul(Mul(FromInt(n * binom(n - 1, 3)), Pow(p, 3)), Sub(One, Pow(p, 3)))

\* Variant of _exp_claws with (p - 1) ** 3 for (1 - p) ** 3.
ExpClawsFlipped(n, p) ==
  Mul(Mul(FromInt(n * binom(n - 1, 3)), Pow(p, 3)), Pow(Sub(p, One), 3))

_exp_claws(n, p) ==
  Mul(Mul(FromInt(n * binom(n - 1, 3)), Pow(p, 3)), Pow(Sub(One, p), 3))

\* Variant of InvertedSecondMomentSum without the last term of the numerator,
\* 1 / (4 * p**3 * p_**3).
InvertedSecondMomentSumShort(n, p, p_) ==
  LET t1 == FromInt(binom(n - 4, 4))
      t2 == FromInt(4 * binom(n - 4, 3))
      t3 == Div(FromInt(3 * binom(n - 4, 2)), Mul(Mul(FromInt(2), p), p_))
      t4 == Mul(Div(FromInt(n - 4), FromInt(4)),
                Add(Div(One, Pow(p_, 3)), Div(FromInt(3), Mul(Pow(p, 2), p_))))
  IN  Div(Add(Add(Add(t1, t2), t3), t4), FromInt(binom(n, 4)))

\* the return expression of _inverted_second_moment_claws, p_ = 1 - p
InvertedSecondMomentSum(n, p, p_) ==
  LET t1 == FromInt(binom(n - 4, 4))
      t2 == FromInt(4 * binom(n - 4, 3))
      t3 == Div(FromInt(3 * binom(n - 4, 2)), Mul(Mul(FromInt(2), p), p_))
      t4 == Mul(Div(FromInt(n - 4), FromInt(4)),
                Add(Div(One, Pow(p_, 3)), Div(FromInt(3), Mul(Pow(p, 2), p_))))
      t5 == Div(One, Mul(Mul(FromInt(4), Pow(p, 3)), Pow(p_, 3)))
  IN  Div(Add(Add(Add(Add(t1, t2), t3), t4), t5), FromInt(binom(n, 4)))

_inverted_second_moment_claws(n, p) == InvertedSecondMomentSum(n, p, Sub(One, p))

exp_claws(n, p) == _exp_claws(n, p)
inverted_second_moment_claws(n, p) == _inverted_second_moment_claws(n, p)

\* The loops add up one term per pass.  Their sums are taken over the two
\* halves of the range, so that the depth of the evaluation grows with the
\* logarithm of the number of passes.

\* the inner loop "for l in range(0, n - k + 1)": its passes l = lo .. hi
RECURSIVE NeighLoop(_, _, _, _, _)
NeighLoop(n, p, k, lo, hi) ==
  IF hi < lo THEN Zero
  ELSE IF lo = hi
  THEN Mul(Mul(Mul(FromInt(binom(n - k, lo)), Pow(p, lo)),
               Pow(Sub(One, p), n - k - lo)),
           Pow(p, binom(lo, 2)))
  ELSE Add(NeighLoop(n, p, k, lo, (lo + hi) \div 2),
           NeighLoop(n, p, k, (lo + hi) \div 2 + 1, hi))

\* Variant of Neigh whose inner loop is "for l in range(0, n - k)".
NeighShort(n, p, k) == NeighLoop(n, p, k, 0, n - k - 1)

\* neigh after the inner loop
Neigh(n, p, k) == NeighLoop(n, p, k, 0, n - k)

\* the loop "for k in range(1, k_max + 1)" of _exp_simp_clique: its passes
\* k = lo .. hi
RECURSIVE ExpSimpLoop(_, _, _, _)
ExpSimpLoop(n, p, lo, hi) ==
  IF hi < lo THEN Zero
  ELSE IF lo = hi
  THEN Mul(Mul(FromInt(binom(n, lo)), Pow(p, binom(lo, 2))),
           Pow(Neigh(n, p, lo), lo))
  ELSE Add(ExpSimpLoop(n, p, lo, (lo + hi) \div 2),
           ExpSimpLoop(n, p, (lo + hi) \div 2 + 1, hi))

\* Variant of _exp_simp_clique whose loop is "for k in range(1, k_max)".
ExpSimpCliqueShort(n, p, k_max) == ExpSimpLoop(n, p, 1, k_max - 1)

_exp_simp_clique(n, p, k_max) == ExpSimpLoop(n, p, 1, k_max)

exp_simp_clique(n, p, k_max) == _exp_simp_clique(n, p, k_max)

\* Variant of CorrectionLoop with binom(n, k) inside the square.
RECURSIVE CorrectionLoopSquaredBinom(_, _, _, _)
CorrectionLoopSquaredBinom(n, p, lo, hi) ==
  IF hi < lo THEN Zero
  ELSE IF lo = hi
  THEN Pow(Mul(FromInt(binom(n, lo)),
               Mul(Pow(p, binom(lo, 2)), Pow(Neigh(n, p, lo), lo))), 2)
  ELSE Add(CorrectionLoopSquaredBinom(n, p, lo, (lo + hi) \div 2),
           CorrectionLoopSquaredBinom(n, p, (lo + hi) \div 2 + 1, hi))

\* the loop "for k in range(1, k_max + 1)" of _better_second_moment_cliques:
\* its passes k = lo .. hi
RECURSIVE CorrectionLoop(_, _, _, _)
CorrectionLoop(n, p, lo, hi) ==
  IF hi < lo THEN Zero
  ELSE IF lo = hi
  THEN Mul(FromInt(binom(n, lo)),
           Pow(Mul(Pow(p, binom(lo, 2)), Pow(Neigh(n, p, lo), lo)), 2))
  ELSE Add(CorrectionLoop(n, p, lo, (lo + hi) \div 2),
           CorrectionLoop(n, p, (lo + hi) \div 2 + 1, hi))

\* Variant of SecondMomentRatio with correction / exp for correction / exp**2.
SecondMomentRatioUnsquared(correction, exp) ==
  Div(One, Sub(Add(One, Div(One, exp)), Div(correction, exp)))

\* the return expression of _better_second_moment_cliques
SecondMomentRatio(correction, exp) ==
  Div(One, Sub(Add(One, Div(One, exp)), Div(correction, Pow(exp, 2))))

_better_second_moment_cliques(n, p, k_max) ==
  SecondMomentRatio(CorrectionLoop(n, p, 1, k_max), exp_simp_clique(n, p, k_max))

better_second_moment_cliques(n, p, k_max) == _better_second_moment_cliques(n, p, k_max)

first_moment(exp) == exp

inverted_first_moment(exp) == Sub(One, exp)

\* c = n * p / np.log(n); exp(-exp(-c)).  np.log(1) = 0.0 makes c = +inf
\* (p > 0), exp(-inf) = 0.0 and the result exp(-0.0) = 1.0.
\* A nan p makes c nan, and np.exp of nan is nan.
prob_connected(n, p) ==
  IF IsNaN(p) THEN NaN
  ELSE IF LnFx(n) = 0 THEN One
  ELSE LET c == (n * FxFloor(p) * Scale) \div LnFx(n)
       IN  Dec(ExpNegFx(ExpNegFx(c)))

\* ------------------------------------------------------------------------
\* Regime composer
\* ------------------------------------------------------------------------
\* Variant of Frame that mixes the claw factors and the clique factors
\* separately and multiplies the two mixtures (the reading of C7 as written).
FrameFactorwise(regime, connected, cc, qc, cu, qu, cg, qg) ==
  [regime |-> regime, raised |-> FALSE, connected |-> connected,
   claw_connected |-> cc, clique_connected |-> qc,
   claw_unconnected |-> cu, clique_unconnected |-> qu,
   claw_giant |-> cg, clique_giant |-> qg,
   ret |-> Mul(Add(Mul(connected, cc), Mul(Sub(One, connected), cu)),
               Add(Mul(connected, qc), Mul(Sub(One, connected), qu)))]

\* The locals of get_lower_bound / get_upper_bound at the return statement:
\* the branch taken, the connectivity weight, the four factors, the
\* giant/small-component products the critical branch computes first
\* (claw_giant, clique_giant; 0 in the other branches), and the returned value.
\* raised: the call ended in an exception instead of returning.
Frame(regime, connected, cc, qc, cu, qu, cg, qg) ==
  [regime |-> regime, raised |-> FALSE, connected |-> connected,
   claw_connected |-> cc, clique_connected |-> qc,
   claw_unconnected |-> cu, clique_unconnected |-> qu,
   claw_giant |-> cg, clique_giant |-> qg,
   ret |-> Add(Mul(Mul(connected, cc), qc),
               Mul(Mul(Sub(One, connected), cu), qu))]

Raised(regime, connected, cc, qc) ==
  [regime |-> regime, raised |-> TRUE, connected |-> connected,
   claw_connected |-> cc, clique_connected |-> qc,
   claw_unconnected |-> Zero, clique_unconnected |-> Zero,
   claw_giant |-> Zero, clique_giant |-> Zero, ret |-> NaN]

NoFrame ==
  [regime |-> "none", raised |-> FALSE, connected |-> Zero,
   claw_connected |-> Zero, clique_connected |-> Zero,
   claw_unconnected |-> Zero, clique_unconnected |-> Zero,
   claw_giant |-> Zero, clique_giant |-> Zero, ret |-> Zero]

\* the branch conditions "p < 1 / n" and "p < ln_n / n"
IsSparse(n, p) == Lt(p, Div(One, FromInt(n)))
IsCritical(n, p) == Lt(p, Div(Log(n), FromInt(n)))

\* Variant of ClawLower without the clip "max(0, ...)".
ClawLowerUnclipped(n, p) == inverted_first_moment(exp_claws(n, p))

ClawLower(n, p) == PyMax(Zero, inverted_first_moment(exp_claws(n, p)))
ClawUpper(n, p) == Sub(One, Div(One, inverted_second_moment_claws(n, p)))
\* Variant of CliqueUpper without the clip "min(1, ...)".
CliqueUpperUnclipped(n, p) == first_moment(exp_simp_clique(n, p, n))

CliqueUpper(n, p) == PyMin(One, first_moment(exp_simp_clique(n, p, n)))

\* the if / elif / else chain of get_lower_bound
LowerRegime(n, p) ==
  IF IsSparse(n, p) THEN "sparse"
  ELSE IF IsCritical(n, p) THEN "critical"
  ELSE "connected"

\* Variant of LowerSparse that raises the per-component bounds to the power
\* size instead of num_components.
LowerSparseBySize(n, p, connected, cc, qc) ==
  LET size == PyRound(LnFx(n), Scale)
  IN  IF LnFx(n) = 0 THEN Raised("sparse", connected, cc, qc)
      ELSE Frame("sparse", connected, cc, qc,
                 Pow(ClawLower(size, p), size),
                 Pow(better_second_moment_cliques(size, p, size), size),
                 Zero, Zero)

\* the branch "if p < 1 / n" of get_lower_bound
LowerSparse(n, p, connected, cc, qc) ==
  LET size == PyRound(LnFx(n), Scale)
  IN  \* round(n / ln_n): n / 0.0 is inf, and round(inf) raises OverflowError
      IF LnFx(n) = 0 THEN Raised("sparse", connected, cc, qc)
      ELSE LET num_components == PyRound(n * Scale, LnFx(n))
               claw_lower_single == ClawLower(size, p)
               simp_lower_single == better_second_moment_cliques(size, p, size)
           IN  Frame("sparse", connected, cc, qc,
                     Pow(claw_lower_single, num_components),
                     Pow(simp_lower_single, num_components), Zero, Zero)

\* Variant of LowerCritical without the assignments of lines 131-132: the
\* giant/small products of lines 129-130 stay the unconnected factors.
LowerCriticalGiant(n, p, connected, cc, qc) ==
  LET size == PyRound(2 * n, 3)
      size_small == PyRound(LnFx(n), Scale)
      num_small == PyRound(n - size, size_small)
  IN  Frame("critical", connected, cc, qc,
            Mul(ClawLower(size, p), Pow(ClawLower(size_small, p), num_small)),
            Mul(better_second_moment_cliques(size, p, size),
                Pow(better_second_moment_cliques(size_small, p, size_small),
                    num_small)),
            Zero, Zero)

\* the branch "elif p < ln_n / n" of get_lower_bound: the giant/small products
\* of lines 129-130 are replaced by the assignments of lines 131-132
LowerCritical(n, p, connected, cc, qc) ==
  LET size == PyRound(2 * n, 3)
      size_small == PyRound(LnFx(n), Scale)
  IN  \* (n - size) / size_small on Python ints: ZeroDivisionError
      IF size_small = 0 THEN Raised("critical", connected, cc, qc)
      ELSE LET num_small == PyRound(n - size, size_small)
               claw_lower_big == ClawLower(size, p)
               claw_lower_small == ClawLower(size_small, p)
               simp_lower_big == better_second_moment_cliques(size, p, size)
               simp_lower_small ==
                 better_second_moment_cliques(size_small, p, size_small)
           IN  Frame("critical", connected, cc, qc,
                     ClawLower(n, p),
                     better_second_moment_cliques(n, p, n),
                     Mul(claw_lower_big, Pow(claw_lower_small, num_small)),
                     Mul(simp_lower_big, Pow(simp_lower_small, num_small)))

\* the if / elif / else statement of get_lower_bound and its return, after
\* connected, claw_lower_connected (cc) and clique_lower_connected (qc)
LowerBranch(n, p, regime, connected, cc, qc) ==
  IF regime = "sparse" THEN LowerSparse(n, p, connected, cc, qc)
  ELSE IF regime = "critical" THEN LowerCritical(n, p, connected, cc, qc)
  ELSE Frame("connected", connected, cc, qc, cc, qc, Zero, Zero)

get_lower_bound(n, p) ==
  LowerBranch(n, p, LowerRegime(n, p), prob_connected(n, p), ClawLower(n, p),
              better_second_moment_cliques(n, p, n))

\* Variant of UpperRegime that tests "p < ln_n / n" before "p < 1 / n".
UpperRegimeSwapped(n, p) ==
  IF IsCritical(n, p) THEN "critical"
  ELSE IF IsSparse(n, p) THEN "sparse"
  ELSE "connected"

\* the if / elif / else chain of get_upper_bound
UpperRegime(n, p) ==
  IF IsSparse(n, p) THEN "sparse"
  ELSE IF IsCritical(n, p) THEN "critical"
  ELSE "connected"

\* the branch "if p < 1 / n" of get_upper_bound
UpperSparse(n, p, connected, cc, qc) ==
  LET size == PyRound(LnFx(n), Scale)
  IN  IF LnFx(n) = 0 THEN Raised("sparse", connected, cc, qc)
      ELSE LET num_components == PyRound(n * Scale, LnFx(n))
               claw_upper_single == ClawUpper(size, p)
               simp_upper_single == CliqueUpper(size, p)
           IN  Frame("sparse", connected, cc, qc,
                     Pow(claw_upper_single, num_components),
                     Pow(simp_upper_single, num_components), Zero, Zero)

\* the branch "elif p < ln_n / n" of get_upper_bound: the giant/small products
\* of lines 176-177 are replaced by the assignments of lines 178-179, which
\* are the lower-bound formulas
UpperCritical(n, p, connected, cc, qc) ==
  LET size == PyRound(2 * n, 3)
      size_small == PyRound(LnFx(n), Scale)
  IN  IF size_small = 0 THEN Raised("critical", connected, cc, qc)
      ELSE LET num_small == PyRound(n - size, size_small)
               claw_upper_big == ClawUpper(size, p)
               claw_upper_small == ClawUpper(size_small, p)
               simp_upper_big == CliqueUpper(size, p)
               simp_upper_small == CliqueUpper(size_small, p)
           IN  Frame("critical", connected, cc, qc,
                     PyMax(Zero, inverted_first_moment(exp_claws(n, p))),
                     better_second_moment_cliques(n, p, n),
                     Mul(claw_upper_big, Pow(claw_upper_small, num_small)),
                     Mul(simp_upper_big, Pow(simp_upper_small, num_small)))

\* the if / elif / else statement of get_upper_bound and its return, after
\* connected, claw_upper_connected (cc) and clique_upper_connected (qc)
UpperBranch(n, p, regime, connected, cc, qc) ==
  IF regime = "sparse" THEN UpperSparse(n, p, connected, cc, qc)
  ELSE IF regime = "critical" THEN UpperCritical(n, p, connected, cc, qc)
  ELSE Frame("connected", connected, cc, qc, cc, qc, Zero, Zero)

get_upper_bound(n, p) ==
  UpperBranch(n, p, UpperRegime(n, p), prob_connected(n, p), ClawUpper(n, p),
              CliqueUpper(n, p))

\* a numpy array of numbers
Array(a) == [k |-> "array", a |-> a]

\* exp_claws called with an array p: np.vectorize applies _exp_claws to each
\* element
exp_claws_array(n, ps) == Array([i \in 1..Len(ps.a) |-> _exp_claws(n, ps.a[i])])

\* Variant of gnp_almost_surely_scf_get_threshold that returns the upper
\* bound.
GetThresholdUpper(n, p) == get_upper_bound(n, p)

gnp_almost_surely_scf_get_threshold(n, p) == get_lower_bound(n, p)

\* The outcome of a call with an array p: the exception it raised ("none"
\* when it returned) and the array it returned.
ArrayOutcome(error, value) == [k |-> "outcome", error |-> error, value |-> value]

\* max(0, x) and min(1, x) with an array x compare x with the number and
\* take the truth value of the resulting array, which raises ValueError when
\* the array has more than one element.
AmbiguousTruth(x) == Len(x.a) > 1

\* the outcome of the scalar path on an array of one element: every
\* operation broadcasts, so the result is the array of the scalar result
SingleElement(f) ==
  IF f.raised THEN ArrayOutcome("OverflowError", Array(<< >>))
  ELSE ArrayOutcome("none", Array(<<f.ret>>))

\* get_lower_bound(n, ps) with an array ps: lines 100-103 work element by
\* element, line 105 calls max(0, 1 - exp_claws(n, ps))
get_lower_bound_array(n, ps) ==
  IF AmbiguousTruth(exp_claws_array(n, ps))
  THEN ArrayOutcome("ValueError", Array(<< >>))
  ELSE SingleElement(get_lower_bound(n, ps.a[1]))

\* get_upper_bound(n, ps) with an array ps: lines 145-150 work element by
\* element, line 151 calls min(1, exp_simp_clique(n, ps, n))
get_upper_bound_array(n, ps) ==
  IF AmbiguousTruth(ps)
  THEN ArrayOutcome("ValueError", Array(<< >>))
  ELSE SingleElement(get_upper_bound(n, ps.a[1]))

\* ------------------------------------------------------------------------
\* testing2.py: the second formulation of the moment functions
\* ------------------------------------------------------------------------
\* Variant of lim_exp_claws without the factor 4.
LimExpClawsNoFactor(n, p) ==
  Mul(Mul(FromInt(binom(n, 4)), Pow(p, 3)), Pow(Sub(One, p), 3))

lim_exp_claws(n, p) ==
  Mul(Mul(FromInt(binom(n, 4) * 4), Pow(p, 3)), Pow(Sub(One, p), 3))

\* neigh of lim_exp_simp_clique after the passes l = 0 .. l_last of its
\* inner loop
RECURSIVE LimNeigh(_, _, _, _)
LimNeigh(n, p, k, l_last) ==
  IF l_last < 0 THEN Zero
  ELSE Add(LimNeigh(n, p, k, l_last - 1),
           Mul(Mul(Mul(FromInt(binom(n - k, l_last)), Pow(p, l_last)),
                   Pow(Sub(One, p), n - k - l_last)),
               Pow(p, binom(l_last, 2))))

\* ret of lim_exp_simp_clique after the passes k = 1 .. k_last of its loop
RECURSIVE LimRet(_, _, _)
LimRet(n, p, k_last) ==
  IF k_last < 1 THEN Zero
  ELSE Add(LimRet(n, p, k_last - 1),
           Mul(Mul(FromInt(binom(n, k_last)), Pow(p, binom(k_last, 2))),
               Pow(LimNeigh(n, p, k_last, n - k_last), k_last)))

lim_exp_simp_clique(n, p, k_max) == LimRet(n, p, k_max)
\* ------------------------------------------------------------------------
\* State: one pair of calls get_lower_bound(arg_n, p), get_upper_bound(arg_n, p)
\* (Spec), and one run of gnp_almost_surely_scf_get_n(p, threshold) (ScanSpec)
\* ------------------------------------------------------------------------
\* largest n of the calls and of the scan
NMax == 6

\* the values of p: 0.125, 0.25, 0.3, 0.5, 0.7, 0.75
PGrid ==
  {Dec(1250), Dec(2500), Dec(3000), Dec(5000), Dec(7000),
   Dec(7500)}

\* one larger input, where exp_simp_clique(n, p, n) is below 1
BigN == NMax + 3
Inputs == ((1..NMax) \X PGrid) \cup {<<BigN, Dec(7000)>>}

\* the thresholds: 0, 0.3, 0.5, 0.7, 0.9, 1
Thresholds ==
  {Zero, Dec(3000), Dec(5000), Dec(7000), Dec(9000), One}

VARIABLES
  arg_n,      \* n of the calls of get_lower_bound and get_upper_bound
  p,          \* p of every call
  threshold,  \* threshold of the scan
  lb,         \* what get_lower_bound(arg_n, p) returned, NoFrame before the call
  ub,         \* what get_upper_bound(arg_n, p) returned, NoFrame before the call
  pc,         \* gnp_almost_surely_scf_get_n: "idle", "loop", "done", "raised"
  n,          \* its local n
  lower,      \* its local lower
  ret,        \* its return value
  stdout,     \* what has been printed
  evaluated,  \* history: the n of each call of get_lower_bound by the scan
  call,       \* the function of a single call (MomentSpec), "none" otherwise
  arg_k,      \* its argument k (binom) or k_max (clique moments)
  out         \* what it returned

vars ==
  <<arg_n, p, threshold, lb, ub, pc, n, lower, ret, stdout, evaluated, call,
    arg_k, out>>

\* nothing called yet
Fresh ==
  /\ lb = NoFrame
  /\ ub = NoFrame
  /\ pc = "idle"
  /\ n = 0
  /\ lower = Zero
  /\ ret = 0
  /\ stdout = << >>
  /\ evaluated = << >>
  /\ call = "none"
  /\ out = Zero

Init ==
  /\ \E in \in Inputs : arg_n = in[1] /\ p = in[2]
  /\ threshold = Zero
  /\ arg_k = 0
  /\ Fresh

CallLower ==
  /\ lb = NoFrame
  /\ lb' = get_lower_bound(arg_n, p)
  /\ UNCHANGED <<arg_n, p, threshold, ub, pc, n, lower, ret, stdout, evaluated,
               call, arg_k, out>>

CallUpper ==
  /\ ub = NoFrame
  /\ ub' = get_upper_bound(arg_n, p)
  /\ UNCHANGED <<arg_n, p, threshold, lb, pc, n, lower, ret, stdout, evaluated,
               call, arg_k, out>>

Next == CallLower \/ CallUpper

Spec == Init /\ [][Next]_vars

\* the p of the scans: the values of PGrid and nan, for which
\* get_lower_bound(n, p) is nan
ScanPs == PGrid \cup {NaN}

ScanInit ==
  /\ arg_n = 0
  /\ arg_k = 0
  /\ p \in ScanPs
  /\ threshold \in Thresholds
  /\ Fresh

\* Variant of ScanCall that starts the scan at n = 0.
ScanCallFromZero ==
  /\ pc = "idle"
  /\ stdout' = Append(stdout, <<"p = ", p>>)
  /\ n' = 0
  /\ pc' = "loop"
  /\ UNCHANGED <<arg_n, p, threshold, lb, ub, lower, ret, evaluated,
               call, arg_k, out>>

\* gnp_almost_surely_scf_get_n(p, threshold) up to the loop: print, n = 1
ScanCall ==
  /\ pc = "idle"
  /\ stdout' = Append(stdout, <<"p = ", p>>)
  /\ n' = 1
  /\ pc' = "loop"
  /\ UNCHANGED <<arg_n, p, threshold, lb, ub, lower, ret, evaluated,
               call, arg_k, out>>

\* Variant of ScanTest that returns the n before the failing one.
ScanTestLastSuccess(m, f) ==
  IF f.raised THEN pc' = "raised" /\ UNCHANGED <<lower, ret>>
  ELSE /\ lower' = f.ret
       /\ IF ~Ge(f.ret, threshold) THEN pc' = "done" /\ ret' = m - 1
          ELSE pc' = "loop" /\ UNCHANGED ret

\* Variant of ScanTest whose exit test is "if lower < threshold".
ScanTestLessThan(m, f) ==
  IF f.raised THEN pc' = "raised" /\ UNCHANGED <<lower, ret>>
  ELSE /\ lower' = f.ret
       /\ IF Lt(f.ret, threshold) THEN pc' = "done" /\ ret' = m
          ELSE pc' = "loop" /\ UNCHANGED ret

\* the test "if not lower >= threshold: break" and, after the break,
\* "return n"; f is what get_lower_bound(n, p) returned or raised
ScanTest(m, f) ==
  IF f.raised THEN pc' = "raised" /\ UNCHANGED <<lower, ret>>
  ELSE /\ lower' = f.ret
       /\ IF ~Ge(f.ret, threshold) THEN pc' = "done" /\ ret' = m
          ELSE pc' = "loop" /\ UNCHANGED ret

\* one pass of "while True": n += 1, lower = get_lower_bound(n, p), the test
ScanStep ==
  /\ pc = "loop"
  /\ n < NMax
  /\ n' = n + 1
  /\ evaluated' = Append(evaluated, n + 1)
  /\ ScanTest(n + 1, get_lower_bound(n + 1, p))
  /\ UNCHANGED <<arg_n, p, threshold, lb, ub, stdout,
               call, arg_k, out>>

ScanNext == ScanCall \/ ScanStep

ScanSpec == ScanInit /\ [][ScanNext]_vars


\* ------------------------------------------------------------------------
\* Single calls of the moment functions of bounds.py and testing2.py, of
\* gnp_almost_surely_scf_get_threshold and of the bounds with an array p
\* (MomentSpec)
\* ------------------------------------------------------------------------
\* the values of p in increasing order, and the increasing grids of at least
\* three of them
GridPoints ==
  <<Dec(1250), Dec(2500), Dec(3000), Dec(5000), Dec(7000), Dec(7500)>>
Grids ==
  {Array(SelectSeq(GridPoints, LAMBDA x : x \in S)) :
     S \in {T \in SUBSET PGrid : Cardinality(T) >= 3}}

\* the n of the calls of exp_claws
ClawNs == (0..NMax) \cup {10, 20}

\* the arguments <<n, k, p>> of the calls; an argument the function does not
\* take is 0
BinomArgs == {<<m, k, Zero>> : m \in 0..(NMax + 2), k \in (-1)..(NMax + 3)}
ClawArgs == {<<m, 0, q>> : m \in ClawNs, q \in PGrid \cup {Zero, One}}
ClawArrayArgs == {<<m, 0, g>> : m \in ClawNs, g \in Grids}
InvertedArgs == {<<m, 0, q>> : m \in ClawNs, q \in PGrid}
CliqueArgs ==
  {<<m, k, q>> : m \in 0..NMax, k \in (-1)..(NMax + 1), q \in PGrid}
BoundArrayArgs ==
  {<<m, 0, g>> : m \in 1..NMax, g \in Grids \cup {Array(<<q>>) : q \in PGrid}}
ThresholdArgs == {<<in[1], 0, in[2]>> : in \in Inputs}

MomentArgs ==
  BinomArgs \cup ClawArgs \cup ClawArrayArgs \cup InvertedArgs \cup CliqueArgs
    \cup ThresholdArgs \cup BoundArrayArgs

MomentInit ==
  /\ \E a \in MomentArgs : arg_n = a[1] /\ arg_k = a[2] /\ p = a[3]
  /\ threshold = Zero
  /\ Fresh

\* the call of function name returns value
MomentReturn(name, value) ==
  /\ pc' = "returned"
  /\ call' = name
  /\ out' = value
  /\ UNCHANGED <<arg_n, p, threshold, lb, ub, n, lower, ret, stdout, evaluated,
                 arg_k>>

CallBinom ==
  /\ pc = "idle"
  /\ <<arg_n, arg_k, p>> \in BinomArgs
  /\ MomentReturn("binom", FromInt(binom(arg_n, arg_k)))

CallExpClaws ==
  /\ pc = "idle"
  /\ <<arg_n, arg_k, p>> \in ClawArgs
  /\ MomentReturn("exp_claws", exp_claws(arg_n, p))

CallExpClawsArray ==
  /\ pc = "idle"
  /\ <<arg_n, arg_k, p>> \in ClawArrayArgs
  /\ MomentReturn("exp_claws_array", exp_claws_array(arg_n, p))

CallExpSimpClique ==
  /\ pc = "idle"
  /\ <<arg_n, arg_k, p>> \in CliqueArgs
  /\ MomentReturn("exp_simp_clique", exp_simp_clique(arg_n, p, arg_k))

CallBetterSecondMomentCliques ==
  /\ pc = "idle"
  /\ <<arg_n, arg_k, p>> \in CliqueArgs
  /\ MomentReturn("better_second_moment_cliques",
                  better_second_moment_cliques(arg_n, p, arg_k))

CallInvertedSecondMomentClaws ==
  /\ pc = "idle"
  /\ <<arg_n, arg_k, p>> \in InvertedArgs
  /\ MomentReturn("inverted_second_moment_claws",
                  inverted_second_moment_claws(arg_n, p))

CallLimExpClaws ==
  /\ pc = "idle"
  /\ <<arg_n, arg_k, p>> \in ClawArgs
  /\ MomentReturn("lim_exp_claws", lim_exp_claws(arg_n, p))

CallLimExpSimpClique ==
  /\ pc = "idle"
  /\ <<arg_n, arg_k, p>> \in CliqueArgs
  /\ MomentReturn("lim_exp_simp_clique",
                  lim_exp_simp_clique(arg_n, p, arg_k))

CallGetLowerBoundArray ==
  /\ pc = "idle"
  /\ <<arg_n, arg_k, p>> \in BoundArrayArgs
  /\ MomentReturn("get_lower_bound_array", get_lower_bound_array(arg_n, p))

CallGetUpperBoundArray ==
  /\ pc = "idle"
  /\ <<arg_n, arg_k, p>> \in BoundArrayArgs
  /\ MomentReturn("get_upper_bound_array", get_upper_bound_array(arg_n, p))

CallGetLowerBound ==
  /\ pc = "idle"
  /\ <<arg_n, arg_k, p>> \in ThresholdArgs
  /\ MomentReturn("get_lower_bound", get_lower_bound(arg_n, p))

CallGetThreshold ==
  /\ pc = "idle"
  /\ <<arg_n, arg_k, p>> \in ThresholdArgs
  /\ MomentReturn("gnp_almost_surely_scf_get_threshold",
                  gnp_almost_surely_scf_get_threshold(arg_n, p))

MomentNext ==
  \/ CallBinom
  \/ CallExpClaws
  \/ CallExpClawsArray
  \/ CallExpSimpClique
  \/ CallBetterSecondMomentCliques
  \/ CallInvertedSecondMomentClaws
  \/ CallLimExpClaws
  \/ CallLimExpSimpClique
  \/ CallGetLowerBoundArray
  \/ CallGetUpperBoundArray
  \/ CallGetLowerBound
  \/ CallGetThreshold

MomentSpec == MomentInit /\ [][MomentNext]_vars
\* ------------------------------------------------------------------------
\* Properties
\* ------------------------------------------------------------------------
\* the call has returned a value (it was made and did not raise)
Returned(f) == f.regime # "none" /\ ~f.raised

\* 0 <= x <= 1
InUnit(x) == Ge(x, Zero) /\ Le(x, One)

\* C1: once get_lower_bound(n, p) and get_upper_bound(n, p) have both
\* returned, the lower bound is at most the upper bound.
C1_BoundsDoNotCross ==
  (Returned(lb) /\ Returned(ub)) => Le(lb.ret, ub.ret)

\* C2: the value returned by get_lower_bound(n, p) and the value returned by
\* get_upper_bound(n, p) lie in [0, 1].
C2_BoundsInUnitInterval ==
  /\ Returned(lb) => InUnit(lb.ret)
  /\ Returned(ub) => InUnit(ub.ret)

\* C3: the scan calls get_lower_bound at n = 2, 3, 4, ... in this order, once
\* each, and returns the first n whose bound fails "bound >= threshold": the
\* returned n is at least 2, the test is false there and true at every m with
\* 2 <= m < returned n.
C3_ScanReturnsFirstFailure ==
  /\ evaluated = [i \in 1..Len(evaluated) |-> i + 1]
  /\ pc # "idle" => Len(evaluated) = n - 1
  /\ pc = "done" =>
       /\ ret >= 2
       /\ ret = evaluated[Len(evaluated)]
       /\ ~Ge(get_lower_bound(ret, p).ret, threshold)
       /\ \A m \in 2..(ret - 1) : Ge(get_lower_bound(m, p).ret, threshold)

\* the scan has returned an n after at least one n met the threshold
C3_Witness == pc = "done" /\ ret > 2

\* C4 as written: the bound at the returned n still meets the threshold.
C4_ReturnsLastSuccess ==
  pc = "done" => Ge(get_lower_bound(ret, p).ret, threshold)

\* C4, amended: the bound at the returned n is below the threshold (or not
\* comparable to it); the last n whose bound met the threshold is the one
\* before the returned n, when the returned n is above 2.
C4_ReturnsFirstFailure ==
  pc = "done" =>
    /\ lower = get_lower_bound(ret, p).ret
    /\ ~Ge(lower, threshold)
    /\ ret > 2 => Ge(get_lower_bound(ret - 1, p).ret, threshold)

\* the scan of p = 0.5, threshold = 0.9 has returned
C4_Witness ==
  pc = "done" /\ ret > 2 /\ Same(p, Dec(5000)) /\ Same(threshold, Dec(9000))

\* the n after which a bounded search gives up
SearchCeiling == NMax - 1

\* C5: a search whose bounds all met the threshold up to the ceiling has
\* stopped; it does not go on to a larger n.
C5_SearchStopsAtCeiling ==
  pc = "loop" => n <= SearchCeiling


\* C6: each call selects one regime, the same in get_lower_bound and in
\* get_upper_bound: sparse iff p < 1/n, critical iff 1/n <= p < ln(n)/n,
\* connected iff p >= ln(n)/n and p >= 1/n.
C6_RegimeSplit ==
  \A f \in {lb, ub} :
    f.regime # "none" =>
      /\ f.regime \in {"sparse", "critical", "connected"}
      /\ f.regime = "sparse" <=> Lt(p, Div(One, FromInt(arg_n)))
      /\ f.regime = "critical" <=>
           /\ Ge(p, Div(One, FromInt(arg_n)))
           /\ Lt(p, Div(Log(arg_n), FromInt(arg_n)))
      /\ f.regime = "connected" <=>
           /\ Ge(p, Div(Log(arg_n), FromInt(arg_n)))
           /\ Ge(p, Div(One, FromInt(arg_n)))

\* both functions have been called on an input of the critical regime
C6_Witness == lb.regime = "critical" /\ ub.regime = "critical"

\* the two mixtures of C7 multiplied: (w * cc + (1 - w) * cu) * (w * qc +
\* (1 - w) * qu)
ProductOfMixtures(f) ==
  Mul(Add(Mul(f.connected, f.claw_connected),
          Mul(Sub(One, f.connected), f.claw_unconnected)),
      Add(Mul(f.connected, f.clique_connected),
          Mul(Sub(One, f.connected), f.clique_unconnected)))

\* the mixture of the two products: w * (cc * qc) + (1 - w) * (cu * qu)
MixtureOfProducts(f) ==
  Add(Mul(f.connected, Mul(f.claw_connected, f.clique_connected)),
      Mul(Sub(One, f.connected), Mul(f.claw_unconnected, f.clique_unconnected)))

\* C7 as written: the returned bound is the product of the claw mixture and
\* the clique mixture.
C7_ProductOfMixtures ==
  \A f \in {lb, ub} : Returned(f) => Same(f.ret, ProductOfMixtures(f))

\* C7, amended: the returned bound is the mixture of the connected product
\* claw_connected * clique_connected and the unconnected product
\* claw_unconnected * clique_unconnected, weighted by connected and
\* 1 - connected, where the factors are those of the regime of (n, p).
C7_MixtureOfProducts ==
  /\ Returned(lb) =>
       /\ Same(lb.connected, prob_connected(arg_n, p))
       /\ Same(lb.claw_connected,
               PyMax(Zero, Sub(One, exp_claws(arg_n, p))))
       /\ Same(lb.clique_connected,
               better_second_moment_cliques(arg_n, p, arg_n))
       /\ Same(lb.ret, MixtureOfProducts(lb))
  /\ Returned(ub) =>
       /\ Same(ub.connected, prob_connected(arg_n, p))
       /\ Same(ub.claw_connected,
               Sub(One, Div(One, inverted_second_moment_claws(arg_n, p))))
       /\ Same(ub.clique_connected,
               PyMin(One, exp_simp_clique(arg_n, p, arg_n)))
       /\ Same(ub.ret, MixtureOfProducts(ub))

\* both functions have returned on a sparse input whose connected and
\* unconnected claw factors differ
C7_Witness ==
  /\ Returned(lb) /\ lb.regime = "sparse"
  /\ ~Same(lb.claw_connected, lb.claw_unconnected)
  /\ Returned(ub) /\ ub.regime = "sparse"
  /\ ~Same(ub.claw_connected, ub.claw_unconnected)

UpperConnectedFormula ==
  Mul(Sub(One, Div(One, inverted_second_moment_claws(arg_n, p))),
      PyMin(One, exp_simp_clique(arg_n, p, arg_n)))

\* C9: in the critical regime get_upper_bound(n, p) returns the
\* connected-regime formula (1 - 1/inverted_second_moment_claws(n, p)) *
\* min(1, exp_simp_clique(n, p, n)).
C9_UpperCriticalIsConnectedFormula ==
  (Returned(ub) /\ ub.regime = "critical") =>
    Same(ub.ret, UpperConnectedFormula)

\* C10: in the connected regime get_upper_bound(n, p) returns (1 -
\* 1/inverted_second_moment_claws(n, p)) * min(1, exp_simp_clique(n, p, n)),
\* whatever prob_connected(n, p) is; its clique factor is at most 1 and is
\* exp_simp_clique(n, p, n) when that is at most 1.
C10_UpperConnectedFormula ==
  (ub.regime # "none" /\ Ge(p, Div(Log(arg_n), FromInt(arg_n)))
     /\ Ge(p, Div(One, FromInt(arg_n)))) =>
    /\ ~ub.raised
    /\ Same(ub.ret, UpperConnectedFormula)
    /\ Le(ub.clique_connected, One)
    /\ Le(exp_simp_clique(arg_n, p, arg_n), One) =>
         Same(ub.clique_connected, exp_simp_clique(arg_n, p, arg_n))

\* get_upper_bound has returned from the connected branch on an input whose
\* exp_simp_clique(n, p, n) is below 1
C10_Witness ==
  /\ Returned(ub) /\ ub.regime = "connected"
  /\ Lt(exp_simp_clique(arg_n, p, arg_n), One)
  /\ Lt(ub.connected, One)

\* the integer nearest to a / b, for a >= 0, b > 0 (no tie among the uses)
NearestInt(a, b) ==
  CHOOSE r \in 0..(a \div b + 1) :
    2 * (IF r * b >= a THEN r * b - a ELSE a - r * b) <= b

\* round(ln m) and round(m / ln m) of the sparse branch, m >= 2
SparseSize(m) == NearestInt(LnFx(m), Scale)
SparseCount(m) == NearestInt(m * Scale, LnFx(m))

\* C11: in the sparse regime (p < 1/n), with s = round(ln n) and m = round(n /
\* ln n), get_lower_bound returns with claw_unconnected = max(0, 1 -
\* exp_claws(s, p))^m and clique_unconnected =
\* better_second_moment_cliques(s, p, s)^m, and get_upper_bound with (1 -
\* 1/inverted_second_moment_claws(s, p))^m and min(1, exp_simp_clique(s, p,
\* s))^m.
C11_SparsePowers ==
  /\ (Returned(lb) /\ Lt(p, Div(One, FromInt(arg_n)))) =>
       /\ Same(lb.claw_unconnected,
               Pow(PyMax(Zero, Sub(One, exp_claws(SparseSize(arg_n), p))),
                   SparseCount(arg_n)))
       /\ Same(lb.clique_unconnected,
               Pow(better_second_moment_cliques(SparseSize(arg_n), p,
                                                SparseSize(arg_n)),
                   SparseCount(arg_n)))
  /\ (Returned(ub) /\ Lt(p, Div(One, FromInt(arg_n)))) =>
       /\ Same(ub.claw_unconnected,
               Pow(Sub(One, Div(One, inverted_second_moment_claws(
                                       SparseSize(arg_n), p))),
                   SparseCount(arg_n)))
       /\ Same(ub.clique_unconnected,
               Pow(PyMin(One, exp_simp_clique(SparseSize(arg_n), p,
                                              SparseSize(arg_n))),
                   SparseCount(arg_n)))

\* both functions have returned from the sparse branch on an input whose
\* per-component clique bound is below 1 and whose component size differs
\* from the component count
C11_Witness ==
  /\ Returned(lb) /\ lb.regime = "sparse"
  /\ Returned(ub) /\ ub.regime = "sparse"
  /\ Lt(lb.clique_unconnected, One)
  /\ SparseSize(arg_n) = 2 /\ SparseCount(arg_n) = 3

\* the values of p as fractions a / b, the endpoints 0 and 1 included
Fractions ==
  {<<0, 1>>, <<1, 8>>, <<1, 4>>, <<3, 10>>, <<1, 2>>, <<7, 10>>, <<3, 4>>,
   <<1, 1>>}

\* m * binom(m - 1, 3), with binom(m - 1, 3) = (m - 1)(m - 2)(m - 3) / 6
ClawPlacements(m) == m * (((m - 1) * (m - 2) * (m - 3)) \div 6)

\* C12: exp_claws(n, p) = n * binom(n - 1, 3) * p^3 * (1 - p)^3, unclipped;
\* exp_claws(20, 1/2) = 302.8125.
C12_ExpClawsExact ==
  call = "exp_claws" =>
    /\ \A f \in Fractions :
         Same(p, Div(FromInt(f[1]), FromInt(f[2]))) =>
           Same(out, Div(FromInt(ClawPlacements(arg_n) * f[1] ^ 3
                                 * (f[2] - f[1]) ^ 3),
                         FromInt(f[2] ^ 6)))
    /\ \E f \in Fractions : Same(p, Div(FromInt(f[1]), FromInt(f[2])))
    /\ (arg_n = 20 /\ Same(p, Dec(5000))) =>
         Same(out, Div(FromInt(3028125), FromInt(10000)))

\* exp_claws(20, 1/2) has returned, a value above 1
C12_Witness ==
  call = "exp_claws" /\ arg_n = 20 /\ Same(p, Dec(5000)) /\ Gt(out, One)

\* C13: for n >= 5 and 0 <= p <= 1, exp_claws(n, p) >= 0; it is 0 at p = 0
\* and at p = 1, and it tends to 0 at both ends: it is at most n * binom(n -
\* 1, 3) * p^3 and at most n * binom(n - 1, 3) * (1 - p)^3.
C13_ExpClawsNonNegative ==
  (call = "exp_claws" /\ arg_n >= 5) =>
    /\ Ge(out, Zero)
    /\ (Same(p, Zero) \/ Same(p, One)) => Same(out, Zero)
    /\ Le(out, Mul(FromInt(ClawPlacements(arg_n)), Pow(p, 3)))
    /\ Le(out, Mul(FromInt(ClawPlacements(arg_n)), Pow(Sub(One, p), 3)))

\* exp_claws has returned a positive value for an n >= 5 and a p inside (0, 1)
C13_Witness ==
  call = "exp_claws" /\ arg_n >= 5 /\ Gt(p, Zero) /\ Lt(p, One) /\ Gt(out, Zero)

\* v rises strictly up to its i-th element and falls strictly after it
RisesThenFalls(v, i) ==
  /\ \A j \in 1..(i - 1) : Lt(v[j], v[j + 1])
  /\ \A j \in i..(Len(v) - 1) : Gt(v[j], v[j + 1])

\* C14 as written: over every increasing grid of p values, the values of
\* exp_claws(n, p) first rise strictly and then fall strictly, with one change
\* of direction at an interior maximum.
C14_RisesThenFallsOnEveryGrid ==
  call = "exp_claws_array" =>
    \E i \in 2..(Len(out.a) - 1) : RisesThenFalls(out.a, i)

\* C14, amended: for n >= 4, exp_claws(n, p) rises strictly in p up to p = 1/2
\* and falls strictly from p = 1/2 on; over an increasing grid no value lies
\* at or below both an earlier and a later one, so the direction changes at
\* most once, from rising to falling.
C14_StrictlyUnimodal ==
  (call = "exp_claws_array" /\ arg_n >= 4) =>
    \A i, j \in 1..Len(out.a) :
      i < j =>
        /\ Le(p.a[j], Dec(5000)) => Lt(out.a[i], out.a[j])
        /\ Ge(p.a[i], Dec(5000)) => Gt(out.a[i], out.a[j])
        /\ \A m \in (i + 1)..(j - 1) :
             Gt(out.a[m], out.a[i]) \/ Gt(out.a[m], out.a[j])

\* exp_claws(10, p) has returned for the grid of all six values of p
C14_Witness ==
  call = "exp_claws_array" /\ arg_n = 10 /\ Len(out.a) = Len(GridPoints)

\* C15: binom(n, k) is the number of k-element subsets of an n-element set
\* for 0 <= k <= n, binom(n, 0) = 1 without raising, and binom(n, k) = 0 for
\* k < 0 or k > n, n >= 0.
C15_Binom ==
  call = "binom" =>
    /\ pc = "returned"
    /\ (0 <= arg_k /\ arg_k <= arg_n) =>
         out = FromInt(Cardinality({S \in SUBSET (1..arg_n) :
                                      Cardinality(S) = arg_k}))
    /\ arg_k = 0 => out = One
    /\ (arg_k < 0 \/ arg_k > arg_n) => out = Zero

\* binom(n, k) has returned for 0 < k < n
C15_Witness ==
  call = "binom" /\ 0 < arg_k /\ arg_k < arg_n /\ Gt(out, FromInt(arg_n))

\* the sum over l = 0 .. l_max of binom(m - k, l) * q^l * (1 - q)^(m - k - l)
\* * q^binom(l, 2), added up term after term
RECURSIVE NeighSum(_, _, _, _)
NeighSum(m, q, k, l_max) ==
  IF l_max < 0 THEN Zero
  ELSE Add(NeighSum(m, q, k, l_max - 1),
           Mul(Mul(Mul(FromInt(binom(m - k, l_max)), Pow(q, l_max)),
                   Pow(Sub(One, q), m - k - l_max)),
               Pow(q, binom(l_max, 2))))

\* the sum over k = 1 .. k_max of binom(m, k) * q^binom(k, 2) * neigh(k)^k
RECURSIVE CliqueSum(_, _, _)
CliqueSum(m, q, k_max) ==
  IF k_max < 1 THEN Zero
  ELSE Add(CliqueSum(m, q, k_max - 1),
           Mul(Mul(FromInt(binom(m, k_max)), Pow(q, binom(k_max, 2))),
               Pow(NeighSum(m, q, k_max, m - k_max), k_max)))

\* C16: exp_simp_clique(n, p, k_max) is the sum over k = 1..k_max of binom(n,
\* k) * p^binom(k, 2) * neigh(k)^k, neigh(k) the complete sum over l = 0..n-k
\* of binom(n-k, l) * p^l * (1-p)^(n-k-l) * p^binom(l, 2).
C16_ExpSimpCliqueSum ==
  call = "exp_simp_clique" => Same(out, CliqueSum(arg_n, p, arg_k))

\* exp_simp_clique has returned for n >= 3 and 2 <= k_max <= n
C16_Witness ==
  /\ call = "exp_simp_clique" /\ arg_n >= 3 /\ arg_k >= 2 /\ arg_k <= arg_n
  /\ Gt(out, Zero)

\* the sum over k = 1 .. k_max of (binom(m, k) * q^binom(k, 2) * neigh(k)^k)^2
RECURSIVE SquaredContributionSum(_, _, _)
SquaredContributionSum(m, q, k_max) ==
  IF k_max < 1 THEN Zero
  ELSE Add(SquaredContributionSum(m, q, k_max - 1),
           Pow(Mul(Mul(FromInt(binom(m, k_max)), Pow(q, binom(k_max, 2))),
                   Pow(NeighSum(m, q, k_max, m - k_max), k_max)), 2))

\* the sum over k = 1 .. k_max of binom(m, k) * (q^binom(k, 2) * neigh(k)^k)^2
RECURSIVE WeightedSquareSum(_, _, _)
WeightedSquareSum(m, q, k_max) ==
  IF k_max < 1 THEN Zero
  ELSE Add(WeightedSquareSum(m, q, k_max - 1),
           Mul(FromInt(binom(m, k_max)),
               Pow(Mul(Pow(q, binom(k_max, 2)),
                       Pow(NeighSum(m, q, k_max, m - k_max), k_max)), 2)))

\* 1 / (1 + 1/e - c/e^2)
PaleyZygmund(c, e) ==
  Div(One, Sub(Add(One, Div(One, e)), Div(c, Mul(e, e))))

\* C17 as written: better_second_moment_cliques(n, p, k_max) = 1 / (1 + 1/exp
\* - correction/exp^2), correction the sum of the squared per-k contributions
\* (binom(n, k) * p^binom(k, 2) * neigh(k)^k)^2.
C17_BinomInsideSquare ==
  call = "better_second_moment_cliques" =>
    Same(out, PaleyZygmund(SquaredContributionSum(arg_n, p, arg_k),
                           CliqueSum(arg_n, p, arg_k)))

\* C17, amended: better_second_moment_cliques(n, p, k_max) = 1 / (1 + 1/exp -
\* correction/exp^2) with exp = exp_simp_clique(n, p, k_max) and correction
\* the sum over k of binom(n, k) * (p^binom(k, 2) * neigh(k)^k)^2: the
\* binomial coefficient is outside the square.
C17_BinomOutsideSquare ==
  call = "better_second_moment_cliques" =>
    Same(out, PaleyZygmund(WeightedSquareSum(arg_n, p, arg_k),
                           CliqueSum(arg_n, p, arg_k)))

\* better_second_moment_cliques has returned a number for n >= 3 and
\* 2 <= k_max <= n
C17_Witness ==
  /\ call = "better_second_moment_cliques"
  /\ arg_n >= 3 /\ arg_k >= 2 /\ arg_k <= arg_n
  /\ IsFin(out)

\* C18: when exp_simp_clique(n, p, k_max) is 0, better_second_moment_cliques
\* returns 0.
C18_ZeroExpectationGivesZero ==
  (call = "better_second_moment_cliques"
     /\ Same(exp_simp_clique(arg_n, p, arg_k), Zero)) =>
    Same(out, Zero)

\* C19: the claw factors get_lower_bound returns with lie in [0, 1] and its
\* clique factors are >= 0; for n >= 1 and k_max >= 1,
\* better_second_moment_cliques(n, p, k_max) lies in (0, 1], its denominator
\* being at least 1.
C19_LowerFactorsNonNegative ==
  /\ (call = "get_lower_bound" /\ Returned(out)) =>
       /\ InUnit(out.claw_connected)
       /\ InUnit(out.claw_unconnected)
       /\ Ge(out.clique_connected, Zero)
       /\ Ge(out.clique_unconnected, Zero)
  /\ (call = "better_second_moment_cliques" /\ arg_n >= 1 /\ arg_k >= 1) =>
       /\ Gt(out, Zero)
       /\ Le(out, One)
       /\ Ge(Div(One, out), One)

\* get_lower_bound has returned on an input where exp_claws(n, p) is above 1,
\* so that the clip of the claw factor acts
C19_Witness ==
  /\ call = "get_lower_bound" /\ Returned(out)
  /\ Gt(exp_claws(arg_n, p), One)
  /\ Same(out.claw_connected, Zero)

\* C20: gnp_almost_surely_scf_get_threshold(n, p) returns what
\* get_lower_bound(n, p) returns, or raises as it does, and prints nothing.
C20_ThresholdIsLowerBound ==
  call = "gnp_almost_surely_scf_get_threshold" =>
    /\ out = get_lower_bound(arg_n, p)
    /\ stdout = << >>

\* gnp_almost_surely_scf_get_threshold has returned a value below 1
C20_Witness ==
  /\ call = "gnp_almost_surely_scf_get_threshold" /\ Returned(out)
  /\ Gt(out.ret, Zero) /\ Lt(out.ret, One)

\* C21: get_lower_bound(n, P) and get_upper_bound(n, P) with an array P of p
\* values return the array whose i-th element is the result of the scalar
\* call on P[i] (stated for n >= 2, where every scalar call returns).
C21_BoundsVectorized ==
  /\ (call = "get_lower_bound_array" /\ arg_n >= 2) =>
       /\ out.error = "none"
       /\ Len(out.value.a) = Len(p.a)
       /\ \A i \in 1..Len(p.a) :
            Same(out.value.a[i], get_lower_bound(arg_n, p.a[i]).ret)
  /\ (call = "get_upper_bound_array" /\ arg_n >= 2) =>
       /\ out.error = "none"
       /\ Len(out.value.a) = Len(p.a)
       /\ \A i \in 1..Len(p.a) :
            Same(out.value.a[i], get_upper_bound(arg_n, p.a[i]).ret)

\* C22: a call of gnp_almost_surely_scf_get_n writes nothing to any output
\* stream.
C22_NoOutput == stdout = << >>

\* a float: a finite number, an infinity or nan
IsNumber(x) == x.k \in {"fin", "pinf", "ninf", "nan"}

\* C23: a call of exp_claws, exp_simp_clique or better_second_moment_cliques
\* with p outside (0, 1), n < 1 or k_max < 0 does not return a numeric value.
C23_DomainViolationsRejected ==
  (/\ call \in {"exp_claws", "exp_simp_clique", "better_second_moment_cliques"}
   /\ (arg_n < 1 \/ arg_k < 0 \/ ~(Gt(p, Zero) /\ Lt(p, One)))) =>
    ~IsNumber(out)

\* the connectivity weight, the four factors and the returned value of a
\* call are finite numbers
FactorsDefined(f) ==
  /\ IsFin(f.connected)
  /\ IsFin(f.claw_connected) /\ IsFin(f.clique_connected)
  /\ IsFin(f.claw_unconnected) /\ IsFin(f.clique_unconnected)
  /\ IsFin(f.ret)

\* C24: no path of get_lower_bound(n, p) or get_upper_bound(n, p) divides by
\* zero: every call returns, every factor is a finite number, and
\* inverted_second_moment_claws(n, p), whose divisor is binom(n, 4), is a
\* finite number.
C24_NoDivisionByZero ==
  /\ lb # NoFrame => ~lb.raised /\ FactorsDefined(lb)
  /\ ub # NoFrame =>
       /\ ~ub.raised /\ FactorsDefined(ub)
       /\ IsFin(inverted_second_moment_claws(arg_n, p))

\* the sum over j = 0 .. 4 of binom(4, j) * binom(m - 4, 4 - j)
VandermondeSum(m) ==
  binom(m - 4, 4) + 4 * binom(m - 4, 3) + 6 * binom(m - 4, 2)
    + 4 * binom(m - 4, 1) + binom(m - 4, 0)

\* C25: for n >= 4 and p in (0, 1), inverted_second_moment_claws(n, p) >= 1,
\* binom(n, 4) is the sum over j of binom(4, j) * binom(n - 4, 4 - j), and
\* the claw factor 1 - 1/inverted_second_moment_claws(n, p) of
\* get_upper_bound lies in [0, 1).
C25_InvertedSecondMomentAtLeastOne ==
  (call = "inverted_second_moment_claws" /\ arg_n >= 4) =>
    /\ Ge(out, One)
    /\ binom(arg_n, 4) = VandermondeSum(arg_n)
    /\ Same(ClawUpper(arg_n, p), Sub(One, Div(One, out)))
    /\ Ge(ClawUpper(arg_n, p), Zero)
    /\ Lt(ClawUpper(arg_n, p), One)

\* inverted_second_moment_claws has returned for an n >= 8, where every term
\* of the numerator is present
C25_Witness ==
  /\ call = "inverted_second_moment_claws" /\ arg_n >= 8
  /\ Gt(out, One) /\ Gt(ClawUpper(arg_n, p), Zero)

\* C26: for n >= 4 and p in (0, 1), max(0, 1 - exp_claws(n, p)) <= 1 -
\* 1/inverted_second_moment_claws(n, p), with exp_claws *
\* inverted_second_moment_claws >= 1; for n >= 1 and k_max >= 1,
\* better_second_moment_cliques(n, p, k_max) <= min(1, exp_simp_clique(n, p,
\* k_max)), with correction <= exp^2 and correction <= exp.
C26_FactorsOrdered ==
  /\ (call = "exp_claws" /\ arg_n >= 4 /\ Gt(p, Zero) /\ Lt(p, One)) =>
       /\ Same(ClawLower(arg_n, p), PyMax(Zero, Sub(One, out)))
       /\ Le(ClawLower(arg_n, p), ClawUpper(arg_n, p))
       /\ Ge(Mul(out, inverted_second_moment_claws(arg_n, p)), One)
  /\ (call = "better_second_moment_cliques" /\ arg_n >= 1 /\ arg_k >= 1) =>
       /\ Le(out, PyMin(One, exp_simp_clique(arg_n, p, arg_k)))
       /\ Le(CorrectionLoop(arg_n, p, 1, arg_k),
             Pow(exp_simp_clique(arg_n, p, arg_k), 2))
       /\ Le(CorrectionLoop(arg_n, p, 1, arg_k),
             exp_simp_clique(arg_n, p, arg_k))

\* better_second_moment_cliques has returned a value strictly below min(1,
\* exp_simp_clique) for n >= 3 and k_max >= 2
C26_Witness ==
  /\ call = "better_second_moment_cliques" /\ arg_n >= 3 /\ arg_k >= 2
  /\ Lt(out, PyMin(One, exp_simp_clique(arg_n, p, arg_k)))
  /\ Gt(exp_simp_clique(arg_n, p, arg_k), One)

\* C27: when get_lower_bound(n, p) is nan at an n of the scan,
\* gnp_almost_surely_scf_get_n stops there and returns that n, whatever the
\* threshold.
C27_NaNStopsScan ==
  (evaluated # << >> /\ IsNaN(lower)) =>
    /\ pc = "done"
    /\ ret = n
    /\ ret = evaluated[Len(evaluated)]
    /\ IsNaN(get_lower_bound(ret, p).ret)

\* the scan has met a nan bound with threshold 0, which every number in
\* [0, 1] passes
C27_Witness ==
  /\ evaluated # << >> /\ IsNaN(lower) /\ pc = "done"
  /\ Same(threshold, Zero)

\* C28: exp_simp_clique(n, p, k_max) is 0 for k_max = 0, non-decreasing in
\* k_max, equal to exp_simp_clique(n, p, n) for k_max >= n, and > 0 for n >= 1
\* and k_max >= 1; neigh(k) lies in (0, 1] for 1 <= k <= n, and for k > n
\* binom(n, k) = 0 and neigh(k) is the empty sum.
C28_ExpSimpCliqueMonotone ==
  (call = "exp_simp_clique" /\ arg_k >= 0) =>
    /\ arg_k = 0 => Same(out, Zero)
    /\ arg_k >= 1 => Ge(out, exp_simp_clique(arg_n, p, arg_k - 1))
    /\ arg_k >= arg_n => Same(out, exp_simp_clique(arg_n, p, arg_n))
    /\ (arg_n >= 1 /\ arg_k >= 1) => Gt(out, Zero)
    /\ \A k \in 1..arg_k :
         IF k <= arg_n
         THEN Gt(Neigh(arg_n, p, k), Zero) /\ Le(Neigh(arg_n, p, k), One)
         ELSE binom(arg_n, k) = 0 /\ Same(Neigh(arg_n, p, k), Zero)

\* exp_simp_clique has returned for a k_max above n >= 2
C28_Witness ==
  /\ call = "exp_simp_clique" /\ arg_n >= 2 /\ arg_k > arg_n
  /\ Gt(out, exp_simp_clique(arg_n, p, 1))

\* C29: testing2.lim_exp_claws(n, p) equals bounds._exp_claws(n, p) for n >=
\* 0 and p in [0, 1], and testing2.lim_exp_simp_clique(n, p, k_max) equals
\* bounds._exp_simp_clique(n, p, k_max) for k_max >= 0.
C29_FormulationsAgree ==
  /\ call = "lim_exp_claws" => Same(out, _exp_claws(arg_n, p))
  /\ (call = "lim_exp_simp_clique" /\ arg_k >= 0) =>
       Same(out, _exp_simp_clique(arg_n, p, arg_k))

\* lim_exp_claws has returned a positive value for an n >= 5
C29_Witness ==
  call = "lim_exp_claws" /\ arg_n >= 5 /\ Gt(out, Zero)
====
